---- MODULE Spec2Model ----
(***************************************************************************)
(* Model of slurpsearch's concurrent page-retrieval pipeline               *)
(* (src/src/fetch.rs): HtmlFetcher::new, HtmlFetcher::fetch_html and       *)
(* fetch_all_html; of the text extraction (src/src/extract.rs) and of the  *)
(* caller of both (src/src/main.rs).                                       *)
(*                                                                         *)
(* Every page fetch operation is the future                                *)
(*     timeout(per_url_timeout, fetcher.fetch_html(url))                   *)
(* and is modelled with one program counter whose values are the await     *)
(* points of fetch_html.  One action resolves one await and runs the code  *)
(* up to the next await, so a call that the code issues right after an     *)
(* await resolved (page.close, new_page, goto) is issued in that action.   *)
(* All futures run on one thread (LocalSet), so actions interleave and     *)
(* never overlap.                                                          *)
(***************************************************************************)
EXTENDS Integers, Sequences, FiniteSets, TLC

\* ------------------------------------------------------------------ bounds
\* URLs of a batch (Spec, LiveSpec), URLs of a run that records histories
\* (FetchSpec), and the largest concurrency width tried.
NumUrls == 2
FetchUrls == 1
MaxConcurrency == 2
\* Elements of a generated document, and characters of a generated text
\* chunk.
MaxElems == 2
MaxChunk == 2

\* ------------------------------------------------------- program constants
\* Duration::from_secs(45)
PerUrlTimeoutSecs == 45
\* fetch_all_html(urls, 32)
MainConcurrency == 32

VARIABLES
    orch,        \* position of fetch_all_html
    ret,         \* value returned by fetch_all_html ("pending" before)
    fetcher,     \* the HtmlFetcher (browser session): none / alive / dropped
    urls,        \* the input URL sequence (urls.into_iter().collect())
    concurrency, \* the concurrency argument
    nextUrl,     \* position of stream::iter in urls
    pc,          \* pc[i]: await point of the operation of urls[i]
    pages,       \* pages[i]: close attempts on each Page the operation got
    res,         \* res[i]: what fetch_html returned ("none" before)
    out,         \* the Vec of (url, outcome) built by the while loop
    traced,      \* operations whose event history is recorded
    trace,       \* trace[i]: history of the calls of the operation
    mpc,         \* position of main
    mret,        \* value returned by main ("pending" before)
    successful,  \* main's Vec of the URLs fetched with success
    passed,      \* URLs main has passed to extract_text so far
    parsed,      \* parsed[n]: the document parsed for passed[n]
    docs,        \* main's Vec<WebDoc>
    origin,      \* origin[j]: page and element docs[j] was made from
    web          \* the documents a fetched page may hold

vars == <<orch, ret, fetcher, urls, concurrency, nextUrl, pc, pages, res,
          out, traced, trace, mpc, mret, successful, passed, parsed, docs,
          origin, web>>

\* What main holds after fetch_all_html.
Pipeline == <<mpc, mret, successful, passed, parsed, docs, origin, web>>

Ops == DOMAIN urls

\* ============================================================ extract.rs
\* Strings the code looks into are tuples of characters.
Upper ==
    <<"A", "B", "C", "D", "E", "F", "G", "H", "I", "J", "K", "L", "M",
      "N", "O", "P", "Q", "R", "S", "T", "U", "V", "W", "X", "Y", "Z">>

Lower ==
    <<"a", "b", "c", "d", "e", "f", "g", "h", "i", "j", "k", "l", "m",
      "n", "o", "p", "q", "r", "s", "t", "u", "v", "w", "x", "y", "z">>

\* str::to_ascii_lowercase
to_ascii_lowercase(s) ==
    [k \in DOMAIN s |->
        IF \E j \in DOMAIN Upper : Upper[j] = s[k]
        THEN Lower[CHOOSE j \in DOMAIN Upper : Upper[j] = s[k]]
        ELSE s[k]]

\* str::eq_ignore_ascii_case
eq_ignore_ascii_case(s, t) == to_ascii_lowercase(s) = to_ascii_lowercase(t)

\* str::contains(&str)
contains(s, k) ==
    \E off \in 0..(Len(s) - Len(k)) :
        \A j \in DOMAIN k : s[off + j] = k[j]

\* char::is_whitespace, on the characters of the generated texts
is_whitespace(ch) == ch \in {" ", "\t", "\n"}

\* const BAD: [&str; 12]
BAD ==
    << <<"n", "a", "v">>,
       <<"n", "a", "v", "b", "a", "r">>,
       <<"m", "e", "n", "u">>,
       <<"f", "o", "o", "t", "e", "r">>,
       <<"h", "e", "a", "d", "e", "r">>,
       <<"s", "i", "d", "e", "b", "a", "r">>,
       <<"b", "r", "e", "a", "d", "c", "r", "u", "m", "b">>,
       <<"b", "r", "e", "a", "d", "c", "r", "u", "m", "b", "s">>,
       <<"c", "o", "o", "k", "i", "e">>,
       <<"c", "o", "n", "s", "e", "n", "t">>,
       <<"s", "u", "b", "s", "c", "r", "i", "b", "e">>,
       <<"n", "e", "w", "s", "l", "e", "t", "t", "e", "r">> >>

looks_like_chrome(s) ==
    LET l == to_ascii_lowercase(s)
    IN  \E n \in DOMAIN BAD : contains(l, BAD[n])

\* A parsed page (Html::parse_document) is the sequence of the elements
\* below <body> in document order.  An element is [parent, tag, attrs,
\* text]: parent is the position of its parent element (0: <body>), attrs
\* the set of its <<name, value>> attributes, text the text node that is
\* its first child (<<>>: it has none).
Body == [parent |-> 0, tag |-> "body", attrs |-> {}, text |-> <<>>]

Elem(d, a) == IF a = 0 THEN Body ELSE d[a]

\* el.value().attr(name): the value, if the attribute is there
attr(el, name) == { a[2] : a \in { b \in el.attrs : b[1] = name } }

\* node.ancestors(): ego_tree starts at the parent of the node and walks
\* up; <html> and the document node above <body> are left out, neither
\* is an element with a tag or an attribute that the code tests.
RECURSIVE ancestors(_, _)
ancestors(d, k) ==
    IF k = 0 THEN <<>>
    ELSE <<d[k].parent>> \o ancestors(d, d[k].parent)

\* Iterator::skip(n)
skip(s, n) == SubSeq(s, n + 1, Len(s))

is_block_tag(tag) ==
    tag \in {"p", "li", "blockquote", "pre", "code",
             "h1", "h2", "h3", "h4", "h5", "h6"}

\* for anc in node.ancestors().skip(1) { if is_block_tag(..) return true }
is_nested_block(d, k) ==
    LET anc == skip(ancestors(d, k), 1)
    IN  \E n \in DOMAIN anc : is_block_tag(Elem(d, anc[n]).tag)

\* The body of the loop of is_boilerplate for one ancestor element.
chrome(el) ==
    \/ el.tag \in {"nav", "header", "footer", "aside"}
    \/ \E role \in attr(el, "role") :
          eq_ignore_ascii_case(role, <<"n", "a", "v", "i", "g", "a", "t",
                                       "i", "o", "n">>)
    \/ \E v \in attr(el, "aria-hidden") :
          eq_ignore_ascii_case(v, <<"t", "r", "u", "e">>)
    \/ \E id \in attr(el, "id") : looks_like_chrome(id)
    \/ \E class \in attr(el, "class") : looks_like_chrome(class)

\* Variant: only the tag of an ancestor is tested.
is_boilerplate_by_tag(d, k) ==
    LET anc == ancestors(d, k)
    IN  \E n \in DOMAIN anc :
          Elem(d, anc[n]).tag \in {"nav", "header", "footer", "aside"}

\* for anc in node.ancestors() { .. return true .. } false
is_boilerplate(d, k) ==
    LET anc == ancestors(d, k)
    IN  \E n \in DOMAIN anc : chrome(Elem(d, anc[n]))

\* node.text(): the text nodes below the element, in document order
text(d, k) ==
    LET below == SelectSeq([j \in DOMAIN d |-> j],
                           LAMBDA j : /\ d[j].text # <<>>
                                      /\ \/ j = k
                                         \/ \E n \in DOMAIN ancestors(d, j) :
                                               ancestors(d, j)[n] = k)
    IN  [m \in DOMAIN below |-> d[below[m]].text]

\* for ch in chunk.chars() { .. }, from character k on; st is
\* <<s, last_was_space>>
RECURSIVE push_chars(_, _, _)
push_chars(st, chunk, k) ==
    IF k > Len(chunk) THEN st
    ELSE push_chars(IF is_whitespace(chunk[k])
                    THEN IF st[2] THEN st ELSE <<Append(st[1], " "), TRUE>>
                    ELSE <<Append(st[1], chunk[k]), FALSE>>,
                    chunk, k + 1)

\* for chunk in iter { .. }, from chunk n on
RECURSIVE push_chunks(_, _, _)
push_chunks(st, chunks, n) ==
    IF n > Len(chunks) THEN st
    ELSE push_chunks(push_chars(st, chunks[n], 1), chunks, n + 1)

\* str::trim
trim(s) ==
    LET keep == { k \in DOMAIN s : ~is_whitespace(s[k]) }
    IN  IF keep = {} THEN <<>>
        ELSE SubSeq(s, CHOOSE k \in keep : \A l \in keep : k <= l,
                       CHOOSE k \in keep : \A l \in keep : l <= k)

\* Variant: last_was_space starts anew with every chunk.
normalize_text_per_chunk(chunks) ==
    LET RECURSIVE go(_, _)
        go(s, n) ==
            IF n > Len(chunks) THEN s
            ELSE go(push_chars(<<s, FALSE>>, chunks[n], 1)[1], n + 1)
    IN  trim(go(<<>>, 1))

normalize_text(chunks) == trim(push_chunks(<< <<>>, FALSE >>, chunks, 1)[1])

\* document.select(&block_sel): the elements matching
\* "p,li,blockquote,pre,code,h1,h2,h3,h4,h5,h6", in document order
select(d) ==
    SelectSeq([j \in DOMAIN d |-> j],
              LAMBDA j : d[j].tag \in {"p", "li", "blockquote", "pre", "code",
                                        "h1", "h2", "h3", "h4", "h5", "h6"})

\* Variant: `seen` is not consulted.
visit_without_seen(acc, url, d, k) ==
    IF is_boilerplate(d, k) \/ is_nested_block(d, k) THEN acc
    ELSE LET t == normalize_text(text(d, k))
         IN  IF t = <<>> THEN acc
             ELSE [out |-> Append(acc.out, [url |-> url, text |-> t]),
                   seen |-> acc.seen \cup {t},
                   from |-> Append(acc.from, k)]

\* One turn of `for node in document.select(&block_sel)`; acc holds out,
\* seen and, for every WebDoc of out, the element it was made from.
visit(acc, url, d, k) ==
    IF is_boilerplate(d, k) THEN acc
    ELSE IF is_nested_block(d, k) THEN acc
    ELSE LET t == normalize_text(text(d, k))
         IN  IF t = <<>> THEN acc
             ELSE IF t \in acc.seen THEN acc
             ELSE [out |-> Append(acc.out, [url |-> url, text |-> t]),
                   seen |-> acc.seen \cup {t},
                   from |-> Append(acc.from, k)]

RECURSIVE for_node(_, _, _, _, _)
for_node(acc, url, d, nodes, n) ==
    IF n > Len(nodes) THEN acc
    ELSE for_node(visit(acc, url, d, nodes[n]), url, d, nodes, n + 1)

\* extract_text(url, html) on the document html parses to; it returns
\* Ok(out) on every path.
extract_text(url, d) ==
    LET acc == for_node([out |-> <<>>, seen |-> {}, from |-> <<>>],
                        url, d, select(d), 1)
    IN  [ok |-> TRUE, docs |-> acc.out, from |-> acc.from]

\* -------------------------------------------------------- generated pages
\* Tags and attributes an element of a generated page is drawn from.
ElemSample ==
    { [tag |-> t, attrs |-> {}] :
        t \in {"p", "li", "pre", "code", "div", "nav"} }
    \cup
    { [tag |-> "div", attrs |-> {a}] :
        a \in { <<"role", <<"N", "a", "v", "i", "g", "a", "t", "i", "o",
                            "n">> >>,
                <<"aria-hidden", <<"T", "R", "U", "E">> >>,
                <<"aria-hidden", <<"f", "a", "l", "s", "e">> >>,
                <<"class", <<"L", "e", "f", "t", "-", "S", "i", "d", "e",
                             "B", "a", "r">> >>,
                <<"id", <<"T", "o", "p", "M", "e", "n", "u">> >> } }
    \cup
    { [tag |-> "p", attrs |-> {<<"class", <<"m", "e", "n", "u">> >>}] }

ShortTexts == { <<>>, <<"a">> }

\* Trees the HTML parser builds: elements in document order, so a parent
\* comes first and is on the branch of the element before; <p> holds no
\* block (its start tag would have closed the <p>), <li> holds no <li>.
Parsed(d) ==
    /\ \A k \in DOMAIN d : d[k].parent < k
    /\ \A k \in DOMAIN d :
         /\ k > 1 =>
               \/ d[k].parent = k - 1
               \/ \E n \in DOMAIN ancestors(d, k - 1) :
                     ancestors(d, k - 1)[n] = d[k].parent
         /\ Elem(d, d[k].parent).tag = "p" => d[k].tag = "code"
         /\ Elem(d, d[k].parent).tag = "li" => d[k].tag # "li"

\* Pages of up to MaxElems elements.
Shapes ==
    UNION { { d \in [1..n ->
                      { [parent |-> q, tag |-> e.tag, attrs |-> e.attrs,
                         text |-> t] :
                          q \in 0..(n - 1), e \in ElemSample,
                          t \in ShortTexts }] : Parsed(d) } :
            n \in 0..MaxElems }

Chunks ==
    UNION { [1..n -> {"a", "b", " ", "\t", "\n"}] : n \in 0..MaxChunk }

\* <p>s<code>t</code></p> for text chunks s and t of up to MaxChunk
\* characters.
Texts ==
    { << [parent |-> 0, tag |-> "p", attrs |-> {}, text |-> c],
         [parent |-> 1, tag |-> "code", attrs |-> {}, text |-> t] >> :
        c \in Chunks, t \in Chunks }

\* <pre><code>example</code></pre>
PreCodePage ==
    << [parent |-> 0, tag |-> "pre", attrs |-> {}, text |-> <<>>],
       [parent |-> 1, tag |-> "code", attrs |-> {},
        text |-> <<"e", "x", "a", "m", "p", "l", "e">>] >>

\* <p>Hello world</p><p>Hello \n world</p>
TwoParagraphs ==
    << [parent |-> 0, tag |-> "p", attrs |-> {},
        text |-> <<"H", "e", "l", "l", "o", " ", "w", "o", "r", "l", "d">>],
       [parent |-> 0, tag |-> "p", attrs |-> {},
        text |-> <<"H", "e", "l", "l", "o", " ", "\n", " ", "w", "o", "r",
                   "l", "d">>] >>

\* <nav><li>a</li></nav><p>b</p><footer><p>c</p></footer>
NavFooterPage ==
    << [parent |-> 0, tag |-> "nav", attrs |-> {}, text |-> <<>>],
       [parent |-> 1, tag |-> "li", attrs |-> {}, text |-> <<"a">>],
       [parent |-> 0, tag |-> "p", attrs |-> {}, text |-> <<"b">>],
       [parent |-> 0, tag |-> "footer", attrs |-> {}, text |-> <<>>],
       [parent |-> 4, tag |-> "p", attrs |-> {}, text |-> <<"c">>] >>

SamplePages == {PreCodePage, TwoParagraphs, NavFooterPage}

Documents == Shapes \cup Texts \cup SamplePages

\* ------------------------------------------------------------ error values
\* Debug texts of playwright errors, as token sequences.
Errors ==
    { <<"Error", "ObjectNotFound">>,
      <<"Error", "TargetClosed">>,
      <<"Session closed">>,
      <<"Browser has been closed">>,
      <<"Timeout">>,
      <<"Error", "net::ERR_NAME_NOT_RESOLVED">> }

Contains(s, tok) == \E k \in DOMAIN s : s[k] = tok

is_object_not_found(err) ==
    \/ Contains(err, "ObjectNotFound")
    \/ Contains(err, "TargetClosed")
    \/ Contains(err, "Session closed")
    \/ Contains(err, "Browser has been closed")

\* Results of fetch_html.
OkHtml == "Ok"
ErrNewPage == "context.new_page failed"
ErrGotoLoad == "goto(Load) failed"
ErrContent == "page.content failed"
ErrRetryGoto == "retry goto(DomContentLoaded) failed"
ErrRetryContent == "retry page.content failed"
ErrTimeout == "timeout after 45s"

\* Await points of one operation.
Pending ==
    { "new_page_1", "goto_dcl", "close_inv", "new_page_2", "goto_load",
      "close_nav", "settle", "content", "close_retry", "new_page_3",
      "goto_retry", "content_retry", "close_content", "close_ok" }

InFlight == { i \in Ops : pc[i] \in Pending }

\* ----------------------------------------------------------------- helpers
Cur(i) == Len(pages[i])

\* History: the calls of operation i in this step, in program order, as
\*   <<"new_page", page, r>>  <<"goto", page, wait, r>>  <<"settle", page, r>>
\*   <<"content", page, r>>   <<"close", page>>
\* stamped when the call resolves (close: when it is issued).
Record(i, evs) ==
    trace' = IF i \in traced
             THEN [trace EXCEPT ![i] = @ \o evs]
             ELSE trace

\* close_page(&page, &url): page.close(None) is called on the current page.
close_page(i) ==
    pages' = [pages EXCEPT ![i] = [@ EXCEPT ![Cur(i)] = @ + 1]]

\* Variant: the stream yields in input order (`buffered`): the outcome is
\* placed before the outcomes of the URLs submitted after it.
FinishInInputOrder(i, r) ==
    /\ pc' = [pc EXCEPT ![i] = "done"]
    /\ res' = [res EXCEPT ![i] = r]
    /\ LET Pos(u) == CHOOSE j \in Ops : urls[j] = u
           before == SelectSeq(out, LAMBDA o : Pos(o[1]) < i)
           after == SelectSeq(out, LAMBDA o : Pos(o[1]) > i)
       IN  out' = before \o << <<urls[i], r>> >> \o after

\* fetch_html returns r; timeout() passes it on, the stream yields (u, res)
\* and the while loop pushes it.
Finish(i, r) ==
    /\ pc' = [pc EXCEPT ![i] = "done"]
    /\ res' = [res EXCEPT ![i] = r]
    /\ out' = Append(out, <<urls[i], r>>)

Orchestrator == <<orch, ret, fetcher, urls, concurrency, nextUrl>>

\* ------------------------------------------------------------------- input
\* The caller passes a set of URLs (main.rs: HashSet<Url>), collected into a
\* Vec in the set's iteration order: pairwise distinct URLs in some order.
\* No code looks into a URL, so two orders of n URLs stand for all.
UrlSeqs(n) ==
    { [i \in 1..n |-> i], [i \in 1..n |-> n + 1 - i] }

\* main before fetch_all_html returns.
MainStart ==
    /\ mpc = "fetch"
    /\ mret = "pending"
    /\ successful = <<>>
    /\ passed = <<>>
    /\ parsed = <<>>
    /\ docs = <<>>
    /\ origin = <<>>
    /\ web = {PreCodePage, NavFooterPage}

InitFrom(n, tracing, widths) ==
    /\ MainStart
    /\ orch = "initialize"
    /\ ret = "pending"
    /\ fetcher = "none"
    /\ urls \in UrlSeqs(n)
    /\ concurrency \in widths
    /\ nextUrl = 1
    /\ pc = [i \in 1..n |-> "queued"]
    /\ pages = [i \in 1..n |-> <<>>]
    /\ res = [i \in 1..n |-> "none"]
    /\ out = <<>>
    /\ traced = IF tracing THEN 1..n ELSE {}
    /\ trace = [i \in 1..n |-> <<>>]

InitWith(n, tracing) == InitFrom(n, tracing, 1..MaxConcurrency)

\* A batch of NumUrls URLs.
Init == InitWith(NumUrls, FALSE)

\* A run whose operations record their history.
FetchInit == InitWith(FetchUrls, TRUE)

\* ------------------------------------------------------- HtmlFetcher::new
OpState == <<nextUrl, pc, pages, res, out, traced, trace>>

\* Playwright::initialize().await.wrap_err(..)?
Initialize ==
    /\ orch = "initialize"
    /\ \E ok \in BOOLEAN :
         IF ok THEN orch' = "launch" /\ ret' = ret
         ELSE orch' = "returned" /\ ret' = "playwright initialize failed"
    /\ UNCHANGED <<Pipeline, fetcher, urls, concurrency, OpState>>

\* chromium.launcher().headless(true).launch().await.wrap_err(..)?
Launch ==
    /\ orch = "launch"
    /\ \E ok \in BOOLEAN :
         IF ok THEN orch' = "context_build" /\ ret' = ret
         ELSE orch' = "returned" /\ ret' = "chromium launch failed"
    /\ UNCHANGED <<Pipeline, fetcher, urls, concurrency, OpState>>

\* browser.context_builder().build().await.wrap_err(..)?  then Ok(Self{..})
ContextBuild ==
    /\ orch = "context_build"
    /\ \E ok \in BOOLEAN :
         IF ok THEN orch' = "streaming" /\ ret' = ret /\ fetcher' = "alive"
         ELSE /\ orch' = "returned"
              /\ ret' = "browser context build failed"
              /\ fetcher' = fetcher
    /\ UNCHANGED <<Pipeline, urls, concurrency, OpState>>

\* -------------------------------------------------------- fetch_all_html
\* buffer_unordered(concurrency) pulls the next future out of stream::iter
\* while fewer than `concurrency` are in progress and polls it: fetch_html
\* starts and reaches self.new_page().await.
\* Variant: the width test is off by one.
CanAdmitOffByOne == Cardinality(InFlight) <= concurrency

\* Variant: the URLs are fetched in chunks of `concurrency`; a chunk starts
\* when the one before it has ended.
CanAdmitInChunks ==
    /\ Cardinality(InFlight) < concurrency
    /\ (nextUrl - 1) % concurrency = 0 => InFlight = {}

CanAdmit == Cardinality(InFlight) < concurrency

\* Variant: the stream is polled before HtmlFetcher::new() has been awaited.
AdmitBeforeSession ==
    /\ orch # "returned"
    /\ nextUrl <= Len(urls)
    /\ CanAdmit
    /\ pc' = [pc EXCEPT ![nextUrl] = "new_page_1"]
    /\ nextUrl' = nextUrl + 1
    /\ UNCHANGED <<Pipeline, orch, ret, fetcher, urls, concurrency, pages,
                   res, out,
                   traced, trace>>

Admit ==
    /\ orch = "streaming"
    /\ nextUrl <= Len(urls)
    /\ CanAdmit
    /\ pc' = [pc EXCEPT ![nextUrl] = "new_page_1"]
    /\ nextUrl' = nextUrl + 1
    /\ UNCHANGED <<Pipeline, orch, ret, fetcher, urls, concurrency, pages,
                   res, out,
                   traced, trace>>

\* timeout(per_url_timeout, fetch_html(..)): the deadline passes while
\* fetch_html is pending at an await.  The fetch_html future is dropped
\* where it stands and the operation yields Err("timeout after 45s").
\* Variant: a timed-out operation yields nothing.
TimeoutDropsUrl(i) ==
    /\ i \in Ops
    /\ pc[i] \in Pending
    /\ pc' = [pc EXCEPT ![i] = "timed_out"]
    /\ UNCHANGED <<Pipeline, Orchestrator, pages, res, out, traced, trace>>

\* Variant: the outcome is filed under the URL admitted last, not under the
\* operation's own `u`.
TimeoutWrongUrl(i) ==
    /\ i \in Ops
    /\ pc[i] \in Pending
    /\ pc' = [pc EXCEPT ![i] = "timed_out"]
    /\ out' = Append(out, <<urls[nextUrl - 1], ErrTimeout>>)
    /\ UNCHANGED <<Pipeline, Orchestrator, pages, res, traced, trace>>

\* Variant: the timeout wraps only the part of fetch_html after navigation.
TimeoutAfterNavigation(i) ==
    /\ i \in Ops
    /\ pc[i] \in Pending \ {"new_page_1", "goto_dcl"}
    /\ pc' = [pc EXCEPT ![i] = "timed_out"]
    /\ out' = Append(out, <<urls[i], ErrTimeout>>)
    /\ UNCHANGED <<Pipeline, Orchestrator, pages, res, traced, trace>>

Timeout(i) ==
    /\ i \in Ops
    /\ pc[i] \in Pending
    /\ pc' = [pc EXCEPT ![i] = "timed_out"]
    /\ out' = Append(out, <<urls[i], ErrTimeout>>)
    /\ UNCHANGED <<Pipeline, Orchestrator, pages, res, traced, trace>>

\* Variant: the loop ends as soon as stream::iter is exhausted, without
\* draining the operations in progress.
ReturnWithoutDraining ==
    /\ orch = "streaming"
    /\ nextUrl > Len(urls)
    /\ orch' = "returned"
    /\ ret' = "Ok"
    /\ fetcher' = "dropped"
    /\ UNCHANGED <<Pipeline, urls, concurrency, OpState>>

\* The stream is exhausted: the while loop ends, Ok(out) is returned and
\* the Arc<HtmlFetcher> is dropped with the async block.
Return ==
    /\ orch = "streaming"
    /\ nextUrl > Len(urls)
    /\ InFlight = {}
    /\ orch' = "returned"
    /\ ret' = "Ok"
    /\ fetcher' = "dropped"
    /\ UNCHANGED <<Pipeline, urls, concurrency, OpState>>

\* ------------------------------------------------ HtmlFetcher::fetch_html
\* Outcomes of an awaited playwright call: "ok" or an error of Errors.
Outcomes == {<<"ok">>} \cup Errors

\* Variant: an Err of new_page leaves fetch_all_html through `?`.
new_page_fatal(i, then) ==
    /\ \E ok \in BOOLEAN :
         IF ok
         THEN /\ pages' = [pages EXCEPT ![i] = Append(@, 0)]
              /\ pc' = [pc EXCEPT ![i] = then]
              /\ Record(i, << <<"new_page", Cur(i) + 1, "ok">> >>)
              /\ UNCHANGED <<res, out, orch, ret, fetcher>>
         ELSE /\ pc' = [pc EXCEPT ![i] = "done"]
              /\ res' = [res EXCEPT ![i] = ErrNewPage]
              /\ orch' = "returned"
              /\ ret' = ErrNewPage
              /\ fetcher' = "dropped"
              /\ Record(i, << <<"new_page", 0, "err">> >>)
              /\ UNCHANGED <<pages, out>>
    /\ UNCHANGED <<Pipeline, urls, concurrency, nextUrl, traced>>

\* self.new_page().await? resolves: Ok gives a fresh Page (no close yet),
\* Err returns from fetch_html through `?`.
new_page(i, then) ==
    /\ \E ok \in BOOLEAN :
         IF ok
         THEN /\ pages' = [pages EXCEPT ![i] = Append(@, 0)]
              /\ pc' = [pc EXCEPT ![i] = then]
              /\ Record(i, << <<"new_page", Cur(i) + 1, "ok">> >>)
              /\ UNCHANGED <<res, out>>
         ELSE /\ Finish(i, ErrNewPage)
              /\ Record(i, << <<"new_page", 0, "err">> >>)
              /\ UNCHANGED pages
    /\ UNCHANGED <<Pipeline, Orchestrator, traced>>

\* let mut page = self.new_page().await?;   then goto(DomContentLoaded)
NewPage1(i) == pc[i] = "new_page_1" /\ new_page(i, "goto_dcl")

\* Variant: the retry with Load never replaces the page.
GotoDclKeepsPage(i) ==
    /\ pc[i] = "goto_dcl"
    /\ \E r \in Outcomes :
         IF r = <<"ok">>
         THEN /\ pc' = [pc EXCEPT ![i] = "settle"]
              /\ Record(i, << <<"goto", Cur(i), "DomContentLoaded", "ok">> >>)
         ELSE /\ pc' = [pc EXCEPT ![i] = "goto_load"]
              /\ Record(i, << <<"goto", Cur(i), "DomContentLoaded",
                                IF is_object_not_found(r) THEN "invalid"
                                ELSE "other">> >>)
    /\ UNCHANGED <<Pipeline, Orchestrator, pages, res, out, traced>>

\* 1) goto(DomContentLoaded) resolves.
GotoDcl(i) ==
    /\ pc[i] = "goto_dcl"
    /\ \E r \in Outcomes :
         IF r = <<"ok">>
         THEN /\ pc' = [pc EXCEPT ![i] = "settle"]
              /\ Record(i, << <<"goto", Cur(i), "DomContentLoaded", "ok">> >>)
              /\ UNCHANGED pages
         ELSE IF is_object_not_found(r)
         THEN /\ close_page(i)
              /\ pc' = [pc EXCEPT ![i] = "close_inv"]
              /\ Record(i, << <<"goto", Cur(i), "DomContentLoaded", "invalid">>,
                               <<"close", Cur(i)>> >>)
         ELSE /\ pc' = [pc EXCEPT ![i] = "goto_load"]
              /\ Record(i, << <<"goto", Cur(i), "DomContentLoaded", "other">> >>)
              /\ UNCHANGED pages
    /\ UNCHANGED <<Pipeline, Orchestrator, res, out, traced>>

\* close_page(&page, &url).await resolves (its error is only logged); the
\* code after it runs up to the next await or to the return.
ClosePage(i) ==
    /\ pc[i] \in {"close_inv", "close_nav", "close_retry", "close_content",
                  "close_ok"}
    /\ \E closed \in BOOLEAN :
         CASE pc[i] = "close_inv" ->
                /\ pc' = [pc EXCEPT ![i] = "new_page_2"]
                /\ UNCHANGED <<res, out>>
           [] pc[i] = "close_retry" ->
                /\ pc' = [pc EXCEPT ![i] = "new_page_3"]
                /\ UNCHANGED <<res, out>>
           [] pc[i] = "close_nav" -> Finish(i, ErrGotoLoad)
           [] pc[i] = "close_content" -> Finish(i, ErrContent)
           [] pc[i] = "close_ok" -> Finish(i, OkHtml)
    /\ UNCHANGED <<Pipeline, Orchestrator, pages, traced, trace>>

\* page = self.new_page().await?;   then 2) goto(Load)
NewPage2(i) == pc[i] = "new_page_2" /\ new_page(i, "goto_load")

\* 2) goto(Load) resolves: on Err close the page and return the error.
GotoLoad(i) ==
    /\ pc[i] = "goto_load"
    /\ \E r \in Outcomes :
         IF r = <<"ok">>
         THEN /\ pc' = [pc EXCEPT ![i] = "settle"]
              /\ Record(i, << <<"goto", Cur(i), "Load", "ok">> >>)
              /\ UNCHANGED pages
         ELSE /\ close_page(i)
              /\ pc' = [pc EXCEPT ![i] = "close_nav"]
              /\ Record(i, << <<"goto", Cur(i), "Load", "err">>,
                               <<"close", Cur(i)>> >>)
    /\ UNCHANGED <<Pipeline, Orchestrator, res, out, traced>>

\* Variant: the settle eval is followed by `?`.
SettleFatal(i) ==
    /\ pc[i] = "settle"
    /\ \E r \in Outcomes :
         IF r = <<"ok">>
         THEN /\ Record(i, << <<"settle", Cur(i), "ok">> >>)
              /\ pc' = [pc EXCEPT ![i] = "content"]
              /\ UNCHANGED <<res, out>>
         ELSE /\ Record(i, << <<"settle", Cur(i), "err">> >>)
              /\ Finish(i, "post-load settle failed")
    /\ UNCHANGED <<Pipeline, Orchestrator, pages, traced>>

\* page.eval(setTimeout 250) resolves; an error is only logged.
Settle(i) ==
    /\ pc[i] = "settle"
    /\ \E r \in Outcomes :
         Record(i, << <<"settle", Cur(i), IF r = <<"ok">> THEN "ok" ELSE "err">> >>)
    /\ pc' = [pc EXCEPT ![i] = "content"]
    /\ UNCHANGED <<Pipeline, Orchestrator, pages, res, out, traced>>

\* Variant: every failure of page.content() is retried on a fresh page.
ContentRetriesAll(i) ==
    /\ pc[i] = "content"
    /\ \E r \in Outcomes :
         /\ close_page(i)
         /\ IF r = <<"ok">>
            THEN /\ pc' = [pc EXCEPT ![i] = "close_ok"]
                 /\ Record(i, << <<"content", Cur(i), "ok">>,
                                  <<"close", Cur(i)>> >>)
            ELSE /\ pc' = [pc EXCEPT ![i] = "close_retry"]
                 /\ Record(i, << <<"content", Cur(i),
                                   IF is_object_not_found(r) THEN "invalid"
                                   ELSE "other">>,
                                  <<"close", Cur(i)>> >>)
    /\ UNCHANGED <<Pipeline, Orchestrator, res, out, traced>>

\* Variant: after a TargetClosed error of page.content() the page is
\* replaced without close_page.
ContentLeaksPage(i) ==
    /\ pc[i] = "content"
    /\ \E r \in Outcomes :
         IF r = <<"ok">>
         THEN /\ close_page(i)
              /\ pc' = [pc EXCEPT ![i] = "close_ok"]
              /\ Record(i, << <<"content", Cur(i), "ok">>,
                               <<"close", Cur(i)>> >>)
         ELSE IF is_object_not_found(r)
         THEN /\ pc' = [pc EXCEPT ![i] = "new_page_3"]
              /\ Record(i, << <<"content", Cur(i), "invalid">> >>)
              /\ UNCHANGED pages
         ELSE /\ close_page(i)
              /\ pc' = [pc EXCEPT ![i] = "close_content"]
              /\ Record(i, << <<"content", Cur(i), "other">>,
                               <<"close", Cur(i)>> >>)
    /\ UNCHANGED <<Pipeline, Orchestrator, res, out, traced>>

\* page.content().await resolves.
Content(i) ==
    /\ pc[i] = "content"
    /\ \E r \in Outcomes :
         /\ close_page(i)
         /\ IF r = <<"ok">>
            THEN /\ pc' = [pc EXCEPT ![i] = "close_ok"]
                 /\ Record(i, << <<"content", Cur(i), "ok">>,
                                  <<"close", Cur(i)>> >>)
            ELSE IF is_object_not_found(r)
            THEN /\ pc' = [pc EXCEPT ![i] = "close_retry"]
                 /\ Record(i, << <<"content", Cur(i), "invalid">>,
                                  <<"close", Cur(i)>> >>)
            ELSE /\ pc' = [pc EXCEPT ![i] = "close_content"]
                 /\ Record(i, << <<"content", Cur(i), "other">>,
                                  <<"close", Cur(i)>> >>)
    /\ UNCHANGED <<Pipeline, Orchestrator, res, out, traced>>

\* page = self.new_page().await?;   then the retry goto(DomContentLoaded)
NewPage3(i) == pc[i] = "new_page_3" /\ new_page(i, "goto_retry")

\* Variant: the result of the retry goto is dropped.
GotoRetryUnchecked(i) ==
    /\ pc[i] = "goto_retry"
    /\ \E r \in Outcomes :
         /\ pc' = [pc EXCEPT ![i] = "content_retry"]
         /\ Record(i, << <<"goto", Cur(i), "DomContentLoaded",
                           IF r = <<"ok">> THEN "ok" ELSE "err">> >>)
    /\ UNCHANGED <<Pipeline, Orchestrator, pages, res, out, traced>>

\* retry goto(DomContentLoaded) resolves; Err returns through `?`.
GotoRetry(i) ==
    /\ pc[i] = "goto_retry"
    /\ \E r \in Outcomes :
         IF r = <<"ok">>
         THEN /\ pc' = [pc EXCEPT ![i] = "content_retry"]
              /\ Record(i, << <<"goto", Cur(i), "DomContentLoaded", "ok">> >>)
              /\ UNCHANGED <<res, out>>
         ELSE /\ Finish(i, ErrRetryGoto)
              /\ Record(i, << <<"goto", Cur(i), "DomContentLoaded", "err">> >>)
    /\ UNCHANGED <<Pipeline, Orchestrator, pages, traced>>

\* Variant: a TargetClosed error of the retry page.content() replaces the
\* page once more.
ContentRetryAgain(i) ==
    /\ pc[i] = "content_retry"
    /\ \E r \in Outcomes :
         IF r = <<"ok">>
         THEN /\ close_page(i)
              /\ pc' = [pc EXCEPT ![i] = "close_ok"]
              /\ Record(i, << <<"content", Cur(i), "ok">>,
                               <<"close", Cur(i)>> >>)
              /\ UNCHANGED <<res, out>>
         ELSE IF is_object_not_found(r)
         THEN /\ close_page(i)
              /\ pc' = [pc EXCEPT ![i] = "close_retry"]
              /\ Record(i, << <<"content", Cur(i), "invalid">>,
                               <<"close", Cur(i)>> >>)
              /\ UNCHANGED <<res, out>>
         ELSE /\ Finish(i, ErrRetryContent)
              /\ Record(i, << <<"content", Cur(i), "err">> >>)
              /\ UNCHANGED pages
    /\ UNCHANGED <<Pipeline, Orchestrator, traced>>

\* retry page.content() resolves; Err returns through `?`, Ok goes on to
\* the final close_page.
ContentRetry(i) ==
    /\ pc[i] = "content_retry"
    /\ \E r \in Outcomes :
         IF r = <<"ok">>
         THEN /\ close_page(i)
              /\ pc' = [pc EXCEPT ![i] = "close_ok"]
              /\ Record(i, << <<"content", Cur(i), "ok">>,
                                  <<"close", Cur(i)>> >>)
              /\ UNCHANGED <<res, out>>
         ELSE /\ Finish(i, ErrRetryContent)
              /\ Record(i, << <<"content", Cur(i), "err">> >>)
              /\ UNCHANGED pages
    /\ UNCHANGED <<Pipeline, Orchestrator, traced>>

Next ==
    \/ Initialize
    \/ Launch
    \/ ContextBuild
    \/ Admit
    \/ \E i \in Ops : NewPage1(i)
    \/ \E i \in Ops : GotoDcl(i)
    \/ \E i \in Ops : NewPage2(i)
    \/ \E i \in Ops : GotoLoad(i)
    \/ \E i \in Ops : Settle(i)
    \/ \E i \in Ops : Content(i)
    \/ \E i \in Ops : NewPage3(i)
    \/ \E i \in Ops : GotoRetry(i)
    \/ \E i \in Ops : ContentRetry(i)
    \/ \E i \in Ops : ClosePage(i)
    \/ \E i \in Ops : Timeout(i)
    \/ Return

Spec == Init /\ [][Next]_vars

FetchSpec == FetchInit /\ [][Next]_vars

\* A batch longer than the pool is wide, the pool two wide.
WindowInit ==
    /\ InitWith(NumUrls + 1, FALSE)
    /\ concurrency = 2
    /\ urls[1] = 1

WindowSpec == WindowInit /\ [][Next]_vars

\* Scheduling: the single-threaded runtime keeps polling the stream, so a
\* free slot is filled, an exhausted stream ends the loop, and the timer of
\* a pending operation fires.  Nothing makes a playwright call resolve.
\* ================================================================ main.rs
\* Variant: every URL of the outcomes is kept.
CollectAll ==
    /\ mpc = "fetch"
    /\ orch = "returned"
    /\ ret = "Ok"
    /\ successful' = [k \in DOMAIN out |-> out[k][1]]
    /\ IF successful' = <<>>
       THEN mpc' = "exit" /\ mret' = "Ok"
       ELSE mpc' = "extract" /\ mret' = mret
    /\ UNCHANGED <<Orchestrator, OpState, passed, parsed, docs, origin, web>>

\* fetch_all_html(..).await? returned Err: main returns it.
FetchFailed ==
    /\ mpc = "fetch"
    /\ orch = "returned"
    /\ ret # "Ok"
    /\ mpc' = "exit"
    /\ mret' = ret
    /\ UNCHANGED <<Orchestrator, OpState, successful, passed, parsed, docs,
                   origin, web>>

\* .into_iter().filter_map(|(url, res)| res.ok().map(..)).collect(), then
\* `if successful.is_empty() { return Ok(()) }`
Collect ==
    /\ mpc = "fetch"
    /\ orch = "returned"
    /\ ret = "Ok"
    /\ LET ok == SelectSeq(out, LAMBDA o : o[2] = OkHtml)
       IN  successful' = [k \in DOMAIN ok |-> ok[k][1]]
    /\ IF successful' = <<>>
       THEN mpc' = "exit" /\ mret' = "Ok"
       ELSE mpc' = "extract" /\ mret' = mret
    /\ UNCHANGED <<Orchestrator, OpState, passed, parsed, docs, origin, web>>

\* One turn of .filter_map(|(url, html)| extract_text(url.clone(),
\* html).ok()).flatten(); after the last one the Vec is collected.
ExtractPage ==
    /\ mpc = "extract"
    /\ Len(passed) < Len(successful)
    /\ \E d \in web :
         LET url == successful[Len(passed) + 1]
             r == extract_text(url, d)
             n == Len(parsed) + 1
         IN  /\ passed' = Append(passed, url)
             /\ parsed' = Append(parsed, d)
             /\ IF r.ok
                THEN /\ docs' = docs \o r.docs
                     /\ origin' = origin \o
                                    [m \in DOMAIN r.from |-> <<n, r.from[m]>>]
                ELSE UNCHANGED <<docs, origin>>
    /\ mpc' = IF Len(passed') = Len(successful) THEN "embed" ELSE "extract"
    /\ UNCHANGED <<Orchestrator, OpState, mret, successful, web>>

\* RagStore::try_from_documents(docs).await ..?
Embed ==
    /\ mpc = "embed"
    /\ \E ok \in BOOLEAN :
         IF ok THEN mpc' = "search" /\ mret' = mret
         ELSE mpc' = "exit" /\ mret' = "embedding failed"
    /\ UNCHANGED <<Orchestrator, OpState, successful, passed, parsed, docs,
                   origin, web>>

\* rag.search(..).await ..?, the findings are printed, Ok(())
Search ==
    /\ mpc = "search"
    /\ \E ok \in BOOLEAN :
         mret' = IF ok THEN "Ok" ELSE "search failed"
    /\ mpc' = "exit"
    /\ UNCHANGED <<Orchestrator, OpState, successful, passed, parsed, docs,
                   origin, web>>

\* main: fetch_all_html(urls, 32) and what follows it.
MainInit == InitFrom(NumUrls, FALSE, {MainConcurrency})

MainNext ==
    \/ Next
    \/ FetchFailed
    \/ Collect
    \/ ExtractPage
    \/ Embed
    \/ Search

MainSpec == MainInit /\ [][MainNext]_vars

\* main with one page fetched, about to extract it; the page holds any of
\* the generated documents.
ExtractInit ==
    /\ orch = "returned"
    /\ ret = "Ok"
    /\ fetcher = "dropped"
    /\ urls = <<1>>
    /\ concurrency = MainConcurrency
    /\ nextUrl = 2
    /\ pc = <<"done">>
    /\ pages = << <<1>> >>
    /\ res = <<OkHtml>>
    /\ out = << <<1, OkHtml>> >>
    /\ traced = {}
    /\ trace = << <<>> >>
    /\ mpc = "extract"
    /\ mret = "pending"
    /\ successful = <<1>>
    /\ passed = <<>>
    /\ parsed = <<>>
    /\ docs = <<>>
    /\ origin = <<>>
    /\ \E d \in Documents : web = {d}

ExtractNext ==
    \/ ExtractPage
    \/ Embed
    \/ Search

ExtractSpec == ExtractInit /\ [][ExtractNext]_vars

Fairness ==
    /\ WF_vars(Admit)
    /\ WF_vars(Return)
    /\ \A i \in 1..NumUrls : WF_vars(Timeout(i))

LiveSpec == Spec /\ Fairness

\* =================================================================== claims
Terminal == {"done", "timed_out"}

\* Outcomes that `out` holds for URL u.
OutcomesOf(u) == { k \in DOMAIN out : out[k][1] = u }

\* Every Page operation i got has had exactly one close attempt.
ClosedOnce(i) == \A h \in DOMAIN pages[i] : pages[i][h] = 1

\* Operation i holds a Page that no close was attempted on.
HoldsOpen(i) == \E h \in DOMAIN pages[i] : pages[i][h] = 0

ConstructionErrors ==
    { "playwright initialize failed", "chromium launch failed",
      "browser context build failed" }

\* C1: when fetch_html has returned, on whatever path, every Page it
\* created has had a close attempted exactly once.
C1_ClosedOnEveryReturn ==
    \A i \in Ops : pc[i] = "done" => ClosedOnce(i)

\* C2: an operation cut off by the per-URL timeout still closes the Page
\* it holds: once fetch_all_html has returned (after which nothing of the
\* operation can run), no timed-out operation has left a Page unclosed.
C2_TimeoutStillCloses ==
    \A i \in Ops :
        (orch = "returned" /\ pc[i] = "timed_out") => ~HoldsOpen(i)

\* C3: at most `concurrency` operations are started and neither completed
\* nor timed out.
C3_BoundedConcurrency ==
    Cardinality(InFlight) <= concurrency

C3_Witness ==
    /\ Cardinality(InFlight) = concurrency
    /\ nextUrl <= Len(urls)

\* C4: once the session is constructed no failure or timeout of a URL makes
\* fetch_all_html return an error, and when it returns, `out` holds exactly
\* one outcome for each input URL.
C4_OneOutcomePerUrl ==
    fetcher # "none" =>
        /\ ret \in {"pending", "Ok"}
        /\ \A i \in Ops : Cardinality(OutcomesOf(urls[i])) <= 1
        /\ orch = "returned" =>
             /\ ret = "Ok"
             /\ Len(out) = Len(urls)
             /\ \A i \in Ops : Cardinality(OutcomesOf(urls[i])) = 1

C4_Witness ==
    /\ orch = "returned"
    /\ ret = "Ok"
    /\ \E i, j \in Ops :
         /\ pc[i] = "timed_out"
         /\ pc[j] = "done" /\ res[j] = ErrContent

\* C5 (as stated): a new_page failure inside an operation aborts the run:
\* fetch_all_html does not return Ok with that failure as a URL's outcome.
C5_NewPageFailureAborts ==
    \A i \in Ops :
        (orch = "returned" /\ res[i] = ErrNewPage) => ret # "Ok"

\* C5 (amended): a new_page failure inside an operation is the outcome of
\* that URL only: it is pushed to `out`, fetch_all_html does not abort, and
\* it returns Ok after every URL of the batch has been processed.
C5_NewPageFailureIsPerUrl ==
    \A i \in Ops :
        res[i] = ErrNewPage =>
            /\ \E k \in DOMAIN out : out[k] = <<urls[i], ErrNewPage>>
            /\ ret \in {"pending", "Ok"}
            /\ orch = "returned" =>
                 /\ ret = "Ok"
                 /\ \A j \in Ops : pc[j] \in Terminal

C5_Witness ==
    /\ orch = "returned"
    /\ concurrency = 1
    /\ res[1] = ErrNewPage
    /\ \E j \in Ops : res[j] = OkHtml

\* C6: if session construction fails, fetch_all_html returns that error,
\* with no outcome, no operation started and no Page created.
C6_ConstructionFailureAborts ==
    (orch = "returned" /\ fetcher = "none") =>
        /\ ret \in ConstructionErrors
        /\ out = <<>>
        /\ nextUrl = 1
        /\ \A i \in Ops : pc[i] = "queued" /\ pages[i] = <<>>

C6_Witness ==
    /\ orch = "returned"
    /\ ret = "browser context build failed"

\* ------------------------------------------------- histories (FetchSpec)
\* Positions in trace[i] of the calls of one kind, and the n-th of them.
Calls(i, kind) == { k \in DOMAIN trace[i] : trace[i][k][1] = kind }

Nth(S, n) == CHOOSE k \in S : Cardinality({ l \in S : l < k }) = n - 1

\* fetch_html of a traced operation has returned.
Returned(i) == i \in traced /\ pc[i] = "done"

\* The first navigation of operation i has failed.
FirstGotoFailed(i) ==
    /\ Calls(i, "goto") # {}
    /\ trace[i][Nth(Calls(i, "goto"), 1)][4] # "ok"

\* What C7 says of a returned operation whose first navigation failed:
\* the next call to navigate is the one retry, with Load, on the page the
\* classification asks for, and a failed retry ends the fetch.
RetriedNavigationOnce(i) ==
    LET t == trace[i]
        G == Calls(i, "goto")
        g1 == Nth(G, 1)
        g2 == Nth(G, 2)
        Loads == { k \in G : t[k][3] = "Load" }
    IN  /\ Cardinality(Loads) = 1
        /\ Cardinality(G) >= 2
        /\ t[g2][3] = "Load"
        /\ IF t[g1][4] = "invalid"
           THEN /\ g2 = g1 + 3
                /\ t[g1 + 1] = <<"close", t[g1][2]>>
                /\ t[g1 + 2] = <<"new_page", t[g1][2] + 1, "ok">>
                /\ t[g2][2] = t[g1][2] + 1
                /\ pages[i][t[g1][2]] = 1
           ELSE /\ g2 = g1 + 1
                /\ t[g2][2] = t[g1][2]
        /\ t[g2][4] # "ok" =>
             /\ Cardinality(G) = 2
             /\ t[g2 + 1] = <<"close", t[g2][2]>>
             /\ Len(t) = g2 + 1
             /\ pages[i][t[g2][2]] = 1
             /\ res[i] = ErrGotoLoad

\* The fresh page for the Load retry could not be acquired: the old page is
\* closed, nothing is navigated again and the fetch fails.
NoPageForRetry(i) ==
    LET t == trace[i]
        g1 == Nth(Calls(i, "goto"), 1)
    IN  /\ t[g1][4] = "invalid"
        /\ Len(t) = g1 + 2
        /\ t[g1 + 1] = <<"close", t[g1][2]>>
        /\ t[g1 + 2] = <<"new_page", 0, "err">>
        /\ pages[i] = <<1>>
        /\ res[i] = ErrNewPage

\* C7 (as stated): when the first navigation fails, exactly one retry with
\* Load follows, on a fresh page after a close if the failure is a session
\* invalidation and on the same page otherwise; a failed retry closes the
\* page and ends the fetch with no further navigation.
C7_ExactlyOneNavigationRetry ==
    \A i \in Ops :
        (Returned(i) /\ FirstGotoFailed(i)) => RetriedNavigationOnce(i)

\* C7 (amended): as C7, except that when the failure is a session
\* invalidation and the fresh page cannot be acquired, the fetch fails with
\* the old page closed and without any retry.
C7_OneNavigationRetryUnlessNoPage ==
    \A i \in Ops :
        (Returned(i) /\ FirstGotoFailed(i)) =>
            \/ RetriedNavigationOnce(i)
            \/ NoPageForRetry(i)

C7_Witness ==
    \E i \in Ops :
        /\ Returned(i)
        /\ FirstGotoFailed(i)
        /\ res[i] = ErrGotoLoad
        /\ Len(pages[i]) = 2

\* The first content extraction of operation i has failed.
FirstContentFailed(i) ==
    /\ Calls(i, "content") # {}
    /\ trace[i][Nth(Calls(i, "content"), 1)][3] # "ok"

\* A failure that is no session invalidation ends the fetch: the page is
\* closed and nothing else is called.
ContentFailureIsFinal(i) ==
    LET t == trace[i]
        c1 == Nth(Calls(i, "content"), 1)
    IN  /\ Cardinality(Calls(i, "content")) = 1
        /\ Len(t) = c1 + 1
        /\ t[c1 + 1] = <<"close", t[c1][2]>>
        /\ res[i] = ErrContent

\* What C8 says after a session invalidation: close, fresh page, navigation
\* with DomContentLoaded, one more extraction; its failure ends the fetch.
RetriedContentOnce(i) ==
    LET t == trace[i]
        C == Calls(i, "content")
        c1 == Nth(C, 1)
        c2 == Nth(C, 2)
        h == t[c1][2]
    IN  /\ Cardinality(C) = 2
        /\ c2 = c1 + 4
        /\ t[c1 + 1] = <<"close", h>>
        /\ t[c1 + 2] = <<"new_page", h + 1, "ok">>
        /\ t[c1 + 3] = <<"goto", h + 1, "DomContentLoaded", "ok">>
        /\ t[c2][2] = h + 1
        /\ pages[i][h] = 1
        /\ IF t[c2][3] = "ok"
           THEN res[i] = OkHtml
           ELSE Len(t) = c2 /\ res[i] = ErrRetryContent

\* The fresh page could not be acquired, or the navigation on it failed:
\* the fetch fails without a second extraction.
NoSecondContent(i) ==
    LET t == trace[i]
        C == Calls(i, "content")
        c1 == Nth(C, 1)
        h == t[c1][2]
    IN  /\ Cardinality(C) = 1
        /\ t[c1 + 1] = <<"close", h>>
        /\ pages[i][h] = 1
        /\ \/ /\ Len(t) = c1 + 2
              /\ t[c1 + 2] = <<"new_page", 0, "err">>
              /\ res[i] = ErrNewPage
           \/ /\ Len(t) = c1 + 3
              /\ t[c1 + 2] = <<"new_page", h + 1, "ok">>
              /\ t[c1 + 3] = <<"goto", h + 1, "DomContentLoaded", "err">>
              /\ res[i] = ErrRetryGoto

\* C8 (as stated): a content failure classified as session invalidation is
\* followed by close, fresh page, navigation with DomContentLoaded and
\* exactly one more extraction; any other content failure, and a failure
\* of the second extraction, ends the fetch in failure with no retry.
C8_ContentRetriedOnceOnInvalidation ==
    \A i \in Ops :
        (Returned(i) /\ FirstContentFailed(i)) =>
            IF trace[i][Nth(Calls(i, "content"), 1)][3] = "invalid"
            THEN RetriedContentOnce(i)
            ELSE ContentFailureIsFinal(i)

\* C8 (amended): as C8, except that the second extraction takes place only
\* if the fresh page is acquired and the navigation on it succeeds; when
\* either fails the fetch ends in failure without a second extraction.
C8_ContentRetriedOnceIfReacquired ==
    \A i \in Ops :
        (Returned(i) /\ FirstContentFailed(i)) =>
            IF trace[i][Nth(Calls(i, "content"), 1)][3] = "invalid"
            THEN RetriedContentOnce(i) \/ NoSecondContent(i)
            ELSE ContentFailureIsFinal(i)

C8_Witness ==
    \E i \in Ops :
        /\ Returned(i)
        /\ FirstContentFailed(i)
        /\ res[i] = ErrRetryContent

\* ------------------------------------------------------ timeout isolation
\* The outcomes `out` holds for the URL of operation i are exactly: its
\* timeout if its own deadline passed, what its own fetch_html returned if
\* that returned, and none while it is queued or in flight.
OwnOutcome(i) ==
    LET O == { out[k][2] : k \in OutcomesOf(urls[i]) }
    IN  /\ Cardinality(OutcomesOf(urls[i])) <= 1
        /\ pc[i] = "timed_out" => O = {ErrTimeout} /\ res[i] = "none"
        /\ pc[i] = "done" => O = {res[i]} /\ res[i] \notin {"none", ErrTimeout}
        /\ pc[i] \notin Terminal => O = {}

\* C9: a URL whose fetch is cut off by the per-URL timeout gets the timeout
\* as its outcome, every other URL gets exactly the result of its own
\* fetch, and a timed-out operation does not keep a queued URL from being
\* started: its slot is free again, and at the return every URL has been
\* processed.
C9_TimeoutIsolation ==
    /\ \A i \in Ops : OwnOutcome(i)
    /\ orch = "returned" /\ ret = "Ok" => \A i \in Ops : pc[i] \in Terminal
    /\ ( /\ orch = "streaming"
         /\ nextUrl <= Len(urls)
         /\ \A i \in Ops : pc[i] \in Terminal \cup {"queued"} )
       => ENABLED Admit

C9_Witness ==
    /\ orch = "returned"
    /\ concurrency = 1
    /\ pc[1] = "timed_out"
    /\ \E j \in Ops : pc[j] = "done" /\ res[j] = OkHtml

\* C10: once the session is constructed, fetch_all_html eventually returns
\* Ok with an outcome for every URL and no URL left queued or in flight,
\* also when playwright calls never resolve.
C10_EventuallyReturnsAll ==
    (fetcher = "alive") ~>
        ( /\ orch = "returned"
          /\ ret = "Ok"
          /\ Len(out) = Len(urls)
          /\ \A i \in Ops : pc[i] \in Terminal )

\* Every operation was cut off by its timeout, one after the other.
C10_Witness ==
    /\ orch = "returned"
    /\ concurrency = 1
    /\ \A i \in Ops : pc[i] = "timed_out" /\ pages[i] = <<0>>

\* ------------------------------------------------------ session lifetime
\* C11: one call constructs exactly one browser session, before any
\* operation starts, and the session is not torn down while an operation
\* is in flight: the session only ever goes from none to alive (with every
\* URL still queued) and from alive to dropped (with nothing in flight),
\* and whenever an operation has started it exists.
C11_OneSessionOutlivesOperations ==
    /\ [](\A i \in Ops : pc[i] # "queued" => fetcher # "none")
    /\ [](InFlight # {} => fetcher = "alive")
    /\ [][ /\ fetcher' # fetcher =>
                \/ /\ fetcher = "none" /\ fetcher' = "alive"
                   /\ \A i \in Ops : pc[i] = "queued"
                \/ /\ fetcher = "alive" /\ fetcher' = "dropped"
                   /\ InFlight = {}
                   /\ orch' = "returned"
         ]_vars

\* The iterator is exhausted and an earlier operation has ended, yet the
\* session is alive because an operation is still in flight.
C11_Witness ==
    /\ fetcher = "alive"
    /\ nextUrl > Len(urls)
    /\ InFlight # {}
    /\ \E i \in Ops : pc[i] \in Terminal

\* --------------------------------------------------------------- admission
\* C12: operations start in the order of the submitted sequence (the
\* started ones are a prefix of it, and a step that starts one starts the
\* earliest queued URL), and a free slot is filled whatever the other
\* operations in flight are doing: with a URL queued and fewer than
\* `concurrency` in flight, the next start is enabled.
C12_FifoSlidingWindow ==
    /\ [](\A i \in Ops : pc[i] # "queued" <=> i < nextUrl)
    /\ []( ( /\ orch = "streaming"
             /\ nextUrl <= Len(urls)
             /\ Cardinality(InFlight) < concurrency )
           => ENABLED Admit )
    /\ [][ \A i \in Ops :
             (pc[i] = "queued" /\ pc'[i] # "queued") =>
                /\ \A j \in Ops : j < i => pc[j] # "queued"
                /\ \A j \in Ops : j # i => pc'[j] = pc[j]
                /\ pc'[i] = "new_page_1"
         ]_vars

\* The second URL has ended, the first has not, and the third runs beside
\* the first: the window slid without waiting for the first.
C12_Witness ==
    /\ Len(urls) >= 3
    /\ concurrency = 2
    /\ pc[2] \in Terminal
    /\ pc[1] \in Pending \ {"new_page_1"}
    /\ pc[3] \in Pending \ {"new_page_1"}

\* -------------------------------------------------------- order of `out`
\* C13: `out` is in completion order: the step in which an operation
\* completes or times out puts its outcome behind all outcomes already
\* there, and nothing else ever changes `out`; so an operation that ended
\* before another precedes it, whatever their order in the input.
C13_CompletionOrder ==
    [][ /\ \A i \in Ops :
             (pc[i] \notin Terminal /\ pc'[i] \in Terminal) =>
                /\ Len(out') = Len(out) + 1
                /\ SubSeq(out', 1, Len(out)) = out
                /\ out'[Len(out')][1] = urls[i]
        /\ out' # out =>
             \E i \in Ops : pc[i] \notin Terminal /\ pc'[i] \in Terminal
      ]_vars

\* The URL submitted second ended first and comes first in the result.
C13_Witness ==
    /\ orch = "returned"
    /\ Len(out) = Len(urls)
    /\ out[1][1] = urls[2]
    /\ out[2][1] = urls[1]
    /\ out[1][2] = OkHtml

\* ------------------------------------------------- order within one fetch
\* Pages handed out to operation i before position k of its history: the
\* last of them is the page the operation holds at k.
Held(i, k) ==
    Cardinality({ n \in Calls(i, "new_page") : n < k /\ trace[i][n][3] = "ok" })

\* navigate < settle < extract < close
Rank(kind) ==
    CASE kind = "new_page" -> 0
      [] kind = "goto" -> 1
      [] kind = "settle" -> 2
      [] kind = "content" -> 3
      [] kind = "close" -> 4

OnPage(i) == { k \in DOMAIN trace[i] : trace[i][k][1] # "new_page" }

\* C19: within one operation every call is made on the page it holds at
\* that moment; on one page the calls come in the order navigate, settle,
\* extract, close; settling follows a successful navigation at once;
\* content is extracted only after a navigation on the same page
\* succeeded; a page is closed at most once and nothing is called on it
\* afterwards; and after the close of the page held last no call is made
\* on any page.
C19_StepsInOrder ==
    \A i \in traced :
        LET t == trace[i] IN
        /\ \A k \in OnPage(i) : t[k][2] = Held(i, k) /\ t[k][2] >= 1
        /\ \A k, l \in OnPage(i) :
             (k < l /\ t[k][2] = t[l][2]) =>
                /\ Rank(t[k][1]) <= Rank(t[l][1])
                /\ t[k][1] # "close"
        /\ \A k \in Calls(i, "settle") :
             /\ k > 1
             /\ t[k - 1][1] = "goto" /\ t[k - 1][4] = "ok"
             /\ t[k - 1][2] = t[k][2]
        /\ \A k \in Calls(i, "content") :
             \E g \in Calls(i, "goto") :
                g < k /\ t[g][2] = t[k][2] /\ t[g][4] = "ok"
        /\ \A k \in Calls(i, "close") :
             t[k][2] = Cur(i) => \A l \in OnPage(i) : l <= k

\* A fetch that went through both retries and returned the HTML.
C19_Witness ==
    \E i \in Ops :
        /\ Returned(i)
        /\ res[i] = OkHtml
        /\ Len(pages[i]) = 3
        /\ Cardinality(Calls(i, "content")) = 2

\* The result of a returned fetch as navigation, page acquisition and
\* content extraction decide it, read off the last call that is none of
\* settle and close.
Decided(i) ==
    LET t == trace[i]
        D == { k \in DOMAIN t : t[k][1] \notin {"settle", "close"} }
        e == t[CHOOSE k \in D : \A l \in D : l <= k]
    IN  CASE e[1] = "new_page" -> ErrNewPage
          [] e[1] = "content" /\ e[3] = "ok" -> OkHtml
          [] e[1] = "content" /\ e[3] = "other" -> ErrContent
          [] e[1] = "content" -> ErrRetryContent
          [] e[1] = "goto" /\ e[3] = "Load" -> ErrGotoLoad
          [] OTHER -> ErrRetryGoto

\* C20: a failed settle after a successful navigation neither ends the
\* fetch nor causes a retry or a new page: the fetch is then waiting for
\* the content of the same page, which is the very next call, settling
\* happens at most once, and the result of the fetch is the one that
\* navigation and content extraction decide.
C20_SettleFailureIsIgnored ==
    \A i \in traced :
        LET t == trace[i] IN
        /\ Cardinality(Calls(i, "settle")) <= 1
        /\ \A k \in Calls(i, "settle") :
             t[k][3] = "err" =>
                /\ t[k - 1] \in { <<"goto", t[k][2], w, "ok">> :
                                    w \in {"DomContentLoaded", "Load"} }
                /\ k = Len(t) => pc[i] \in {"content", "timed_out"}
                /\ k < Len(t) =>
                     /\ t[k + 1][1] = "content"
                     /\ t[k + 1][2] = t[k][2]
                /\ Cur(i) >= t[k][2]
                /\ pc[i] = "done" => res[i] = Decided(i)

\* The settle failed and the fetch still returned the HTML of that page.
C20_Witness ==
    \E i \in Ops :
        /\ Returned(i)
        /\ res[i] = OkHtml
        /\ Len(pages[i]) = 1
        /\ \E k \in Calls(i, "settle") : trace[i][k][3] = "err"

\* ------------------------------------------------------- text extraction
\* The page and the element that docs[j] was made from.
PageOf(j) == parsed[origin[j][1]]

NodeOf(j) == origin[j][2]

\* The WebDocs made from page n.
DocsOf(n) == { j \in DOMAIN origin : origin[j][1] = n }

\* The strict ancestors of element k, <body> included.
Above(d, k) == { ancestors(d, k)[n] : n \in DOMAIN ancestors(d, k) }

\* C14: no WebDoc is made from an element that has a strict ancestor, the
\* parent included, with one of the selected block tags; and the page
\* <pre><code>example</code></pre> gives exactly one WebDoc.
C14_NoNestedCandidateEmitted ==
    /\ \A j \in DOMAIN origin :
         \A a \in Above(PageOf(j), NodeOf(j)) :
            Elem(PageOf(j), a).tag \notin
                {"p", "li", "blockquote", "pre", "code",
                 "h1", "h2", "h3", "h4", "h5", "h6"}
    /\ \A n \in DOMAIN parsed :
         parsed[n] = PreCodePage => Cardinality(DocsOf(n)) = 1

\* The candidates of d that pass the boilerplate, nesting and emptiness
\* tests of the loop, and those of them that are the first with their
\* text.
Survives(d, k) ==
    /\ is_block_tag(d[k].tag)
    /\ ~is_boilerplate(d, k)
    /\ ~is_nested_block(d, k)
    /\ normalize_text(text(d, k)) # <<>>

FirstOfItsText(d, k) ==
    /\ Survives(d, k)
    /\ \A l \in 1..(k - 1) :
         Survives(d, l) =>
            normalize_text(text(d, l)) # normalize_text(text(d, k))

\* C15: the WebDocs of one call of extract_text have pairwise distinct
\* texts; they are made, in document order, from exactly the surviving
\* candidates that are the first with their normalized text; each holds
\* that text and the URL the call was given.
C15_FirstOccurrenceWins ==
    \A n \in DOMAIN parsed :
        LET d == parsed[n] IN
        /\ \A j, l \in DocsOf(n) : j # l => docs[j].text # docs[l].text
        /\ { NodeOf(j) : j \in DocsOf(n) } =
              { k \in DOMAIN d : FirstOfItsText(d, k) }
        /\ \A j, l \in DocsOf(n) : j < l => NodeOf(j) < NodeOf(l)
        /\ \A j \in DocsOf(n) :
             /\ docs[j].text = normalize_text(text(d, NodeOf(j)))
             /\ docs[j].url = passed[n]
        /\ DOMAIN docs = DOMAIN origin

\* Two surviving candidates share a text and one WebDoc holds it.
C15_Witness ==
    /\ parsed # <<>>
    /\ \E k, l \in DOMAIN parsed[1] :
         /\ k < l
         /\ Survives(parsed[1], k)
         /\ Survives(parsed[1], l)
         /\ normalize_text(text(parsed[1], k)) =
               normalize_text(text(parsed[1], l))
    /\ Len(docs) = 1

\* An element marked as page chrome, in the words of the claim.
Marked(el) ==
    \/ el.tag \in {"nav", "header", "footer", "aside"}
    \/ \E a \in el.attrs :
         /\ a[1] = "role"
         /\ to_ascii_lowercase(a[2]) =
               <<"n", "a", "v", "i", "g", "a", "t", "i", "o", "n">>
    \/ \E a \in el.attrs :
         /\ a[1] = "aria-hidden"
         /\ to_ascii_lowercase(a[2]) = <<"t", "r", "u", "e">>
    \/ \E a \in el.attrs :
         /\ a[1] \in {"id", "class"}
         /\ \E n \in DOMAIN BAD : contains(to_ascii_lowercase(a[2]), BAD[n])

\* C16: no WebDoc is made from an element with a marked ancestor; a
\* candidate without one, that is not nested and has text, has its text
\* in a WebDoc; and the page with a nav block, a footer block and one
\* paragraph gives exactly one WebDoc, with the text of the paragraph.
C16_BoilerplateExcluded ==
    /\ \A j \in DOMAIN origin :
         \A a \in Above(PageOf(j), NodeOf(j)) : ~Marked(Elem(PageOf(j), a))
    /\ \A n \in DOMAIN parsed :
         \A k \in DOMAIN parsed[n] :
            ( /\ is_block_tag(parsed[n][k].tag)
              /\ \A a \in Above(parsed[n], k) : ~Marked(Elem(parsed[n], a))
              /\ ~is_nested_block(parsed[n], k)
              /\ normalize_text(text(parsed[n], k)) # <<>> )
            => \E j \in DocsOf(n) :
                  docs[j].text = normalize_text(text(parsed[n], k))
    /\ \A n \in DOMAIN parsed :
         parsed[n] = NavFooterPage =>
            /\ Cardinality(DocsOf(n)) = 1
            /\ \A j \in DocsOf(n) : docs[j].text = <<"b">>

\* The page with the nav block, the footer block and the paragraph has
\* been extracted.
C16_Witness ==
    /\ parsed = <<NavFooterPage>>
    /\ Len(docs) = 1
    /\ mpc = "embed"

\* The characters of all chunks, in order.
RECURSIVE Flat(_)
Flat(chunks) ==
    IF chunks = <<>> THEN <<>> ELSE Head(chunks) \o Flat(Tail(chunks))

\* The positions of the non-whitespace characters of s, ascending.
Inked(s) ==
    SelectSeq([m \in DOMAIN s |-> m], LAMBDA m : s[m] \notin {" ", "\t", "\n"})

\* C17: an emitted text is not empty, begins and ends with a
\* non-whitespace character, holds no whitespace but single spaces, holds
\* the non-whitespace characters of the element in their order, and two
\* of them are neighbours in it exactly if they are neighbours in the
\* element: every run of whitespace between them, within a chunk or
\* across chunks, has become one space.
C17_NormalizedText ==
    \A j \in DOMAIN origin :
        LET t == docs[j].text
            raw == Flat(text(PageOf(j), NodeOf(j)))
            P == Inked(raw)
            Q == Inked(t)
        IN  /\ t # <<>>
            /\ Q # <<>> /\ Q[1] = 1 /\ Q[Len(Q)] = Len(t)
            /\ \A m \in DOMAIN t :
                 t[m] \in {" ", "\t", "\n"} =>
                    t[m] = " " /\ t[m + 1] \notin {" ", "\t", "\n"}
            /\ Len(P) = Len(Q)
            /\ \A m \in DOMAIN P : raw[P[m]] = t[Q[m]]
            /\ \A m \in 1..(Len(P) - 1) :
                 (P[m + 1] = P[m] + 1) <=> (Q[m + 1] = Q[m] + 1)

\* A text whose element has a run of whitespace that ends one chunk and
\* begins the next.
C17_Witness ==
    \E j \in DOMAIN origin :
        LET chunks == text(PageOf(j), NodeOf(j)) IN
        /\ Len(chunks) = 2
        /\ Inked(chunks[1]) # <<>>
        /\ Inked(chunks[2]) # <<>>
        /\ chunks[1][Len(chunks[1])] \in {" ", "\t", "\n"}
        /\ chunks[2][1] \in {" ", "\t", "\n"}

\* ------------------------------------------------------------------ main
\* The URLs to which fetch_all_html gave the HTML.
Fetched == { out[k][1] : k \in { l \in DOMAIN out : out[l][2] = OkHtml } }

\* C18: main passes to extract_text only URLs that were fetched with
\* success, each once, and when the extraction is over all of them; the
\* extraction never ends main, it appends what extract_text returned for
\* the page (nothing for an Err); and with no URL fetched main returns Ok
\* without passing a page to extract_text, embedding or searching.
C18_OnlySuccessesExtracted ==
    /\ []( /\ \A n \in DOMAIN passed : passed[n] \in Fetched
           /\ \A n, m \in DOMAIN passed : n # m => passed[n] # passed[m]
           /\ (mpc \in {"embed", "search"} \/ (mpc = "exit" /\ ret = "Ok"))
                 => { passed[n] : n \in DOMAIN passed } = Fetched
           /\ mpc = "extract" => mret = "pending"
           /\ (orch = "returned" /\ ret = "Ok" /\ Fetched = {})
                 => /\ mpc \in {"fetch", "exit"}
                    /\ mpc = "exit" => mret = "Ok"
                    /\ passed = <<>> )
    /\ [][ mpc = "extract" =>
             /\ mpc' \in {"extract", "embed"}
             /\ passed' # passed =>
                  LET r == extract_text(passed'[Len(passed')],
                                        parsed'[Len(parsed')])
                  IN  docs' = docs \o (IF r.ok THEN r.docs ELSE <<>>) ]_vars

\* One URL was fetched, the other timed out, and main ran to its end with
\* the fetched one extracted.
C18_Witness ==
    /\ mpc = "exit"
    /\ mret = "Ok"
    /\ Len(passed) = 1
    /\ \E k \in DOMAIN out : out[k][2] = ErrTimeout
    /\ docs # <<>>

\* ------------------------------------------------------- page replacement
\* Pages of operation i on which no close has been attempted.
Unclosed(i) == { h \in DOMAIN pages[i] : pages[i][h] = 0 }

\* C21: an operation never holds two pages without a close attempt: only
\* the page acquired last can be without one, and every new_page call
\* after the first, failed ones too, comes right after the close of the
\* page held until then.
C21_OneOpenPage ==
    \A i \in Ops :
        /\ Cardinality(Unclosed(i)) <= 1
        /\ \A h \in Unclosed(i) : h = Cur(i)
        /\ i \in traced =>
             \A k \in Calls(i, "new_page") :
                k > 1 =>
                   /\ Held(i, k) >= 1
                   /\ trace[i][k - 1] = <<"close", Held(i, k)>>

\* The page was closed after content() lost it, and the replacement could
\* not be acquired.
C21_Witness ==
    \E i \in Ops :
        /\ Returned(i)
        /\ res[i] = ErrNewPage
        /\ pages[i] = <<1>>
        /\ Calls(i, "content") # {}

\* ----------------------------------------------------------- retry bounds
\* C22: one operation gets at most 3 pages, navigates at most 3 times and
\* extracts content at most twice, whatever fails and however the failure
\* is classified; the URLs of a call are pairwise distinct, an operation
\* is started once and never again, and no URL has two outcomes.
C22_BoundedRetries ==
    /\ [](\A i \in Ops :
            /\ Len(pages[i]) <= 3
            /\ i \in traced =>
                 /\ Cardinality({ k \in Calls(i, "new_page") :
                                    trace[i][k][3] = "ok" }) = Len(pages[i])
                 /\ Cardinality(Calls(i, "new_page")) <= 3
                 /\ Cardinality(Calls(i, "goto")) <= 3
                 /\ Cardinality(Calls(i, "content")) <= 2
            /\ \A j \in Ops : j # i => urls[j] # urls[i]
            /\ Cardinality(OutcomesOf(urls[i])) <= 1)
    /\ [][ \A i \in Ops :
             /\ pc[i] # "queued" => pc'[i] # "queued"
             /\ (pc'[i] = "new_page_1" /\ pc[i] # "new_page_1")
                   => pc[i] = "queued" /\ pages[i] = <<>> ]_vars

\* An operation that used all it may: 3 pages, 3 navigations and 2 content
\* extractions, and still failed.
C22_Witness ==
    \E i \in Ops :
        /\ Returned(i)
        /\ res[i] = ErrRetryContent
        /\ Len(pages[i]) = 3
        /\ Cardinality(Calls(i, "goto")) = 3
        /\ Cardinality(Calls(i, "content")) = 2

====
